---- MODULE Spec2Model ----
(***************************************************************************)
(* A model of process_files (src/main.py): the directory scan that counts  *)
(* the files, the second os.walk that visits them, the destination-path    *)
(* derivation, the per-file subprocess dispatch with its exception         *)
(* handlers, and the exits of the run.                                     *)
(*                                                                         *)
(* Strings are sequences of one-character strings, so that os.path.join,   *)
(* dirname, basename, splitext, relpath, str.lower and str.endswith are    *)
(* computed the way posixpath computes them.  The file system is a set of  *)
(* directories and a set of regular files, each named by its normalised    *)
(* absolute path (a sequence of segments).                                 *)
(***************************************************************************)
EXTENDS Integers, Sequences, FiniteSets, TLC

VARIABLES
    source_dir,               \* argument of process_files (string)
    extension,                \* argument; normalised at lines 55-56
    dry_run,                  \* argument
    output_file_prefix,       \* argument
    output_subdir,            \* argument
    fs,                       \* the file system: [dirs, files, noWrite]
    fs0,                      \* the file system when process_files was called
    pc,                       \* position of the run inside process_files
    stop,                     \* why the run has ended ("none" while it runs)
    exit_status,              \* the process's exit status (-1 while it runs)
    total_files_to_process,   \* line 63
    processed_files_counter,  \* line 77
    walkStack,                \* os.walk: directories still to be listed
    curRoot,                  \* os.walk: the `root` of the current yield
    curFiles,                 \* os.walk: names of `files` not yet iterated
    counted,                  \* files counted by the first scan (line 68)
    visited,                  \* original_file_path of each file visited (line 86)
    outputs,                  \* new_file_path of each file (line 103)
    system_command,           \* line 108, of the file being dispatched
    spawned,                  \* the commands given to subprocess.run (line 123)
    printedOnly,              \* the commands of "(Dry run: ...)" (line 112)
    lastOutcome,              \* how the last subprocess.run ended
    errorsReported,           \* number of "Error" reports printed (lines 141-152)
    envChanges,               \* changes other processes made to the source tree
    progress,                 \* the <<iteration, total>> given to print_progress
    emitted                   \* the closing messages printed so far

vars == <<source_dir, extension, dry_run, output_file_prefix, output_subdir,
          fs, fs0, pc, stop, exit_status, total_files_to_process,
          processed_files_counter, walkStack, curRoot, curFiles, counted,
          visited, outputs, system_command, spawned, printedOnly, lastOutcome,
          errorsReported, envChanges, progress, emitted>>

----------------------------------------------------------------------------
(* Strings and posixpath                                                   *)

sep == "/"

Last(s) == s[Len(s)]

\* str.lower over the alphabet of the model
LowerChar(c) ==
    CASE c = "T" -> "t"
      [] c = "X" -> "x"
      [] OTHER   -> c

lower(s) == [i \in 1..Len(s) |-> LowerChar(s[i])]

startswith(s, pre) ==
    /\ Len(pre) <= Len(s)
    /\ SubSeq(s, 1, Len(pre)) = pre

endswith(s, suf) ==
    /\ Len(suf) <= Len(s)
    /\ SubSeq(s, Len(s) - Len(suf) + 1, Len(s)) = suf

\* str.rfind, 1-based: the last index of character c in s, 0 when absent
rfind(s, c) ==
    LET hits == {i \in 1..Len(s) : s[i] = c}
    IN  IF hits = {} THEN 0 ELSE CHOOSE i \in hits : \A j \in hits : j <= i

\* str.rstrip(c)
RECURSIVE rstrip(_, _)
rstrip(s, c) ==
    IF s # <<>> /\ Last(s) = c THEN rstrip(SubSeq(s, 1, Len(s) - 1), c) ELSE s

\* posixpath.join(a, b)
join(a, b) ==
    IF b # <<>> /\ b[1] = sep THEN b
    ELSE IF a = <<>> \/ Last(a) = sep THEN a \o b
    ELSE a \o <<sep>> \o b

\* posixpath.join(a, b, c)
join3(a, b, c) == join(join(a, b), c)

\* posixpath.basename
basename(p) == SubSeq(p, rfind(p, sep) + 1, Len(p))

\* posixpath.dirname
dirname(p) ==
    LET head == SubSeq(p, 1, rfind(p, sep))
    IN  IF head # <<>> /\ \E i \in 1..Len(head) : head[i] # sep
        THEN rstrip(head, sep)
        ELSE head

\* posixpath.splitext: <<root, ext>>
splitext(p) ==
    LET sepIndex == rfind(p, sep)
        dotIndex == rfind(p, ".")
    IN  IF /\ dotIndex > sepIndex
           /\ \E i \in (sepIndex + 1)..(dotIndex - 1) : p[i] # "."
        THEN <<SubSeq(p, 1, dotIndex - 1), SubSeq(p, dotIndex, Len(p))>>
        ELSE <<p, <<>>>>

\* str.split(sep) keeping the non-empty pieces
RECURSIVE Segments(_)
Segments(p) ==
    IF p = <<>> THEN <<>>
    ELSE LET hits == {i \in 1..Len(p) : p[i] = sep}
             cut  == IF hits = {} THEN Len(p) + 1
                     ELSE CHOOSE i \in hits : \A j \in hits : i <= j
             head == SubSeq(p, 1, cut - 1)
             rest == Segments(SubSeq(p, cut + 1, Len(p)))
         IN  IF head = <<>> THEN rest ELSE <<head>> \o rest

\* posixpath.normpath on segments: "." dropped, ".." removes its parent
RECURSIVE NormSegs(_, _)
NormSegs(done, todo) ==
    IF todo = <<>> THEN done
    ELSE LET h == Head(todo)
         IN  IF h = <<".">> THEN NormSegs(done, Tail(todo))
             ELSE IF h = <<".", ".">>
                  THEN NormSegs(IF done = <<>> THEN done
                                ELSE SubSeq(done, 1, Len(done) - 1), Tail(todo))
             ELSE NormSegs(Append(done, h), Tail(todo))

\* os.getcwd()
Cwd == <<sep, "w">>

\* posixpath.abspath, as the list of its segments: the name of a file
\* system entry
Resolve(p) == NormSegs(<<>>, Segments(join(Cwd, p)))

\* sep.join(segs)
RECURSIVE JoinSegs(_)
JoinSegs(segs) ==
    IF segs = <<>> THEN <<>>
    ELSE IF Len(segs) = 1 THEN segs[1]
    ELSE segs[1] \o <<sep>> \o JoinSegs(Tail(segs))

\* length of the common prefix of two segment lists
RECURSIVE CommonLen(_, _)
CommonLen(a, b) ==
    IF a = <<>> \/ b = <<>> \/ Head(a) # Head(b) THEN 0
    ELSE 1 + CommonLen(Tail(a), Tail(b))

\* posixpath.relpath(path, start)
relpath(path, start) ==
    LET start_list == Resolve(start)
        path_list  == Resolve(path)
        i          == CommonLen(start_list, path_list)
        rel_list   == [k \in 1..(Len(start_list) - i) |-> <<".", ".">>]
                      \o SubSeq(path_list, i + 1, Len(path_list))
    IN  IF rel_list = <<>> THEN <<".">> ELSE JoinSegs(rel_list)

----------------------------------------------------------------------------
(* The file system                                                         *)

\* the names of the entries of `set` that lie directly in directory D
ChildNames(D, set) ==
    {e[Len(e)] : e \in {x \in set : /\ Len(x) = Len(D) + 1
                                    /\ SubSeq(x, 1, Len(D)) = D}}

\* os.path.isdir
isdir(F, p) == Resolve(p) \in F.dirs

\* the directories os.makedirs(name, exist_ok=True) needs to exist
Ancestors(segs) == {SubSeq(segs, 1, k) : k \in 0..Len(segs)}

\* os.makedirs(name, exist_ok=True) returns: no component is a regular
\* file, and every missing component can be created in its parent
makedirsOK(F, name) ==
    LET segs == Resolve(name)
    IN  \A k \in 1..Len(segs) :
            LET d == SubSeq(segs, 1, k)
            IN  /\ d \notin F.files
                /\ \/ d \in F.dirs
                   \/ SubSeq(segs, 1, k - 1) \notin F.noWrite

\* the file system after os.makedirs(name, exist_ok=True) has returned
makedirs(F, name) == [F EXCEPT !.dirs = @ \cup Ancestors(Resolve(name))]

\* all the orders in which os.scandir may list the names of S
Orders(S) ==
    {q \in [1..Cardinality(S) -> S] :
        \A i, j \in 1..Cardinality(S) : i # j => q[i] # q[j]}

----------------------------------------------------------------------------
(* The inputs                                                              *)

Str_w    == <<"w">>
Str_s    == <<"s">>
Str_a    == <<"a">>
Str_f    == <<"f">>
Str_n    == <<"n">>
Str_o    == <<"o">>
Str_dot  == <<".">>
Str_test == <<"t", "e", "s", "t">>
Str_Xt   == <<"X", ".", "T">>
Str_xt   == <<"x", ".", "t">>
Str_yt   == <<"y", ".", "t">>
Str_zm   == <<"z", ".", "m">>
Str_vt   == <<"v", ".", "t">>

\* s/X.T, s/a/y.t and s/z.m under the working directory, and a regular file f
Tree1 ==
    [dirs    |-> {<<>>, <<Str_w>>, <<Str_w, Str_s>>, <<Str_w, Str_s, Str_a>>},
     files   |-> {<<Str_w, Str_s, Str_Xt>>, <<Str_w, Str_s, Str_a, Str_yt>>,
                  <<Str_w, Str_s, Str_zm>>, <<Str_w, Str_f>>},
     noWrite |-> {}]

\* a source directory with files, none of them matching
Tree2 ==
    [dirs    |-> {<<>>, <<Str_w>>, <<Str_w, Str_s>>},
     files   |-> {<<Str_w, Str_s, Str_zm>>},
     noWrite |-> {}]

\* the files lie in the working directory itself
Tree3 ==
    [dirs    |-> {<<>>, <<Str_w>>},
     files   |-> {<<Str_w, Str_xt>>, <<Str_w, Str_yt>>},
     noWrite |-> {}]

\* Tree1 with an output base directory in which nothing can be created
Tree4 ==
    [Tree1 EXCEPT !.dirs = @ \cup {<<Str_w, Str_test>>},
                  !.noWrite = {<<Str_w, Str_test>>}]

\* Tree1 with a regular file where the output base directory should be
Tree5 == [Tree1 EXCEPT !.files = @ \cup {<<Str_w, Str_test>>}]

Trees == {Tree1, Tree2, Tree3, Tree4, Tree5}

SourceDirs   == {Str_s, Str_dot, Str_n, Str_f}
Extensions   == {<<"t">>, <<".", "T">>}
FilePrefixes == {<<>>, <<"p", "_">>, <<"p", sep>>}
OutputSubdirs == {<<>>, Str_o, <<sep, "o">>}

\* how many changes other processes make to the source tree during a run
MaxEnvChanges == 1

\* command_prefix: one token, the executable
command_prefix == <<<<"c", "p">>>>

\* line 58
output_base_dir == Str_test

Outcomes == {"Success", "CommandNotFound", "NonZeroExit", "UnexpectedError",
             "Interrupted"}

\* exit status of a Python process that dies of an uncaught KeyboardInterrupt
UncaughtInterruptStatus == {1, 130}

Init ==
    /\ source_dir \in SourceDirs
    /\ extension \in Extensions
    /\ dry_run \in BOOLEAN
    /\ output_file_prefix \in FilePrefixes
    /\ output_subdir \in OutputSubdirs
    /\ fs \in Trees
    /\ fs0 = fs
    /\ pc = "start"
    /\ stop = "none"
    /\ exit_status = -1
    /\ total_files_to_process = 0
    /\ processed_files_counter = 0
    /\ walkStack = <<>>
    /\ curRoot = <<>>
    /\ curFiles = {}
    /\ counted = {}
    /\ visited = <<>>
    /\ outputs = <<>>
    /\ system_command = <<>>
    /\ spawned = <<>>
    /\ printedOnly = <<>>
    /\ lastOutcome = "none"
    /\ errorsReported = 0
    /\ envChanges = 0
    /\ progress = {}
    /\ emitted = {}

----------------------------------------------------------------------------
(* The pieces of process_files                                             *)

\* lines 55-56: the extension starts with a dot
NormaliseExtension(ext) ==
    IF startswith(ext, <<".">>) THEN ext ELSE <<".">> \o ext

\* lines 67 and 85
Matches(filename, ext) == endswith(lower(filename), lower(ext))

\* line 92
relative_path(original_file_path, src) == relpath(original_file_path, src)

\* lines 93-96
new_file_name(prefix, original_file_path) ==
    LET parts == splitext(basename(original_file_path))
    IN  prefix \o parts[1] \o parts[2]

\* line 100 with the directory of the file itself in place of the
\* directory of its relative path
relative_output_dir_NotRelative(subdir, original_file_path, src) ==
    join3(output_base_dir, subdir, dirname(original_file_path))

\* line 100
relative_output_dir(subdir, original_file_path, src) ==
    join3(output_base_dir, subdir, dirname(relative_path(original_file_path, src)))

\* line 103
new_file_path(prefix, subdir, original_file_path, src) ==
    join(relative_output_dir(subdir, original_file_path, src),
         new_file_name(prefix, original_file_path))

\* line 121: the iteration shown before the command runs
IterationBefore(processed) == processed - 1

\* lines 134-152 with the CalledProcessError handler ending the run too
HandlerExits_OnNonZeroExit(outcome) ==
    outcome \in {"Interrupted", "NonZeroExit"}

\* lines 134-152 with the KeyboardInterrupt handler printing and going on
HandlerExits_Never(outcome) == FALSE

\* lines 134-152: the handler of this outcome ends the run (exit(0), line 137)
HandlerExits(outcome) == outcome = "Interrupted"

\* lines 139-152: each of these handlers prints one error report
ReportsError(outcome) ==
    IF outcome \in {"CommandNotFound", "NonZeroExit", "UnexpectedError"}
    THEN 1 ELSE 0

\* what a successful command may have done to the file system: nothing, or
\* written its last argument (as cp does) when that file can be created
CommandEffects(F, cmd) ==
    LET dest   == Resolve(cmd[Len(cmd)])
        parent == SubSeq(dest, 1, Len(dest) - 1)
    IN  {F} \cup
        IF /\ dest # <<>>
           /\ parent \in F.dirs
           /\ parent \notin F.noWrite
           /\ dest \notin F.dirs
        THEN {[F EXCEPT !.files = @ \cup {dest}]}
        ELSE {}

\* the run ends: sys.exit, exit, an uncaught exception or the end of the script
Exit(why, status) ==
    /\ pc' = "exit"
    /\ stop' = why
    /\ exit_status' = status

----------------------------------------------------------------------------
(* The steps of process_files                                              *)

\* lines 50-60: the source directory is checked and the output base
\* directory created
Start ==
    /\ pc = "start"
    /\ IF ~isdir(fs, source_dir)
       THEN /\ Exit("bad_source", 1)
            /\ emitted' = emitted \cup {"source_not_found"}
            /\ UNCHANGED <<extension, fs, walkStack>>
       ELSE /\ extension' = NormaliseExtension(extension)
            /\ IF makedirsOK(fs, output_base_dir)
               THEN /\ fs' = makedirs(fs, output_base_dir)
                    /\ pc' = "scan"
                    /\ walkStack' = <<source_dir>>
                    /\ UNCHANGED <<stop, exit_status, emitted>>
               ELSE /\ Exit("uncaught_OSError_base", 1)
                    /\ UNCHANGED <<fs, walkStack, emitted>>
    /\ UNCHANGED <<source_dir, dry_run, output_file_prefix, output_subdir, fs0, envChanges,
                   total_files_to_process, processed_files_counter, curRoot,
                   curFiles, counted, visited, outputs, system_command,
                   spawned, printedOnly, lastOutcome, errorsReported, progress>>

\* os.walk lists the next directory: its sub-directories are queued in the
\* order scandir gave them; a directory that cannot be listed is skipped
ListDir(top, found) ==
    LET D == Resolve(top)
    IN  IF D \notin fs.dirs
        THEN /\ walkStack' = Tail(walkStack)
             /\ found = {}
        ELSE /\ found = {f \in ChildNames(D, fs.files) : Matches(f, extension)}
             /\ \E order \in Orders(ChildNames(D, fs.dirs)) :
                    walkStack' = [i \in 1..Len(order) |-> join(top, order[i])]
                                 \o Tail(walkStack)

\* lines 65-68: the first scan counts the matching files of one directory
ScanDir ==
    /\ pc = "scan"
    /\ walkStack # <<>>
    /\ \E found \in SUBSET ChildNames(Resolve(Head(walkStack)), fs.files) :
          /\ ListDir(Head(walkStack), found)
          /\ total_files_to_process' = total_files_to_process + Cardinality(found)
          /\ counted' = counted \cup
                 {Append(Resolve(Head(walkStack)), f) : f \in found}
    /\ UNCHANGED <<source_dir, extension, dry_run, output_file_prefix,
                   output_subdir, fs, fs0, envChanges, pc, stop, exit_status,
                   processed_files_counter, curRoot, curFiles, visited, outputs,
                   system_command, spawned, printedOnly, lastOutcome, errorsReported, progress,
                   emitted>>

\* lines 70-81: no file found ends the run; otherwise the bar is drawn at 0
ScanDone ==
    /\ pc = "scan"
    /\ walkStack = <<>>
    /\ IF total_files_to_process = 0
       THEN /\ Exit("no_match", 0)
            /\ emitted' = emitted \cup {"no_files_found"}
            /\ UNCHANGED <<processed_files_counter, progress, walkStack>>
       ELSE /\ processed_files_counter' = 0
            /\ progress' = progress \cup {<<0, total_files_to_process>>}
            /\ pc' = "walk"
            /\ walkStack' = <<source_dir>>
            /\ UNCHANGED <<stop, exit_status, emitted>>
    /\ UNCHANGED <<source_dir, extension, dry_run, output_file_prefix,
                   output_subdir, fs, fs0, envChanges, total_files_to_process, curRoot,
                   curFiles, counted, visited, outputs, system_command, spawned,
                   printedOnly, lastOutcome, errorsReported>>

\* line 83: the second walk lists the next directory
WalkDir ==
    /\ pc = "walk"
    /\ curFiles = {}
    /\ walkStack # <<>>
    /\ \E found \in SUBSET ChildNames(Resolve(Head(walkStack)), fs.files) :
          /\ ListDir(Head(walkStack), found)
          /\ curFiles' = found
    /\ curRoot' = Head(walkStack)
    /\ UNCHANGED <<source_dir, extension, dry_run, output_file_prefix,
                   output_subdir, fs, fs0, envChanges, pc, stop, exit_status,
                   total_files_to_process, processed_files_counter, counted,
                   visited, outputs, system_command, spawned, printedOnly,
                   lastOutcome, errorsReported, progress, emitted>>

\* lines 84-121: one matching file of the current directory is visited: the
\* counter grows, the destination is derived and its directory created, and
\* the command is built; a dry run prints it, otherwise the bar is redrawn
\* and the command is about to run
VisitFile ==
    /\ pc = "walk"
    /\ \E filename \in curFiles :
          LET original_file_path == join(curRoot, filename)
              out_dir  == relative_output_dir(output_subdir, original_file_path,
                                              source_dir)
              new_path == new_file_path(output_file_prefix, output_subdir,
                                        original_file_path, source_dir)
              cmd      == command_prefix \o <<original_file_path, new_path>>
          IN  /\ curFiles' = curFiles \ {filename}
              /\ processed_files_counter' = processed_files_counter + 1
              /\ visited' = Append(visited, original_file_path)
              /\ IF ~makedirsOK(fs, out_dir)
                 THEN /\ Exit("uncaught_OSError_dest", 1)
                      /\ UNCHANGED <<fs, outputs, system_command, printedOnly,
                                     progress>>
                 ELSE /\ fs' = makedirs(fs, out_dir)
                      /\ outputs' = Append(outputs, new_path)
                      /\ system_command' = cmd
                      /\ UNCHANGED <<stop, exit_status>>
                      /\ IF dry_run
                         THEN /\ printedOnly' = Append(printedOnly, cmd)
                              /\ UNCHANGED <<pc, progress>>
                         ELSE /\ progress' = progress \cup
                                     {<<IterationBefore(processed_files_counter'),
                                        total_files_to_process>>}
                              /\ pc' = "run"
                              /\ UNCHANGED printedOnly
    /\ UNCHANGED <<source_dir, extension, dry_run, output_file_prefix,
                   output_subdir, fs0, envChanges, total_files_to_process, walkStack,
                   curRoot, counted, spawned, lastOutcome, errorsReported, emitted>>

\* lines 123-152: subprocess.run ends one of five ways; only the
\* KeyboardInterrupt handler ends the run
RunCommand ==
    /\ pc = "run"
    /\ \E outcome \in Outcomes :
          /\ lastOutcome' = outcome
          /\ errorsReported' = errorsReported + ReportsError(outcome)
          /\ spawned' = Append(spawned, system_command)
          /\ IF outcome = "Success"
             THEN fs' \in CommandEffects(fs, system_command)
             ELSE fs' = fs
          /\ IF HandlerExits(outcome)
             THEN /\ Exit("interrupted", 0)
                  /\ emitted' = emitted \cup {"closing_script"}
             ELSE /\ pc' = "walk"
                  /\ UNCHANGED <<stop, exit_status, emitted>>
    /\ UNCHANGED <<source_dir, extension, dry_run, output_file_prefix,
                   output_subdir, fs0, envChanges, total_files_to_process,
                   processed_files_counter, walkStack, curRoot, curFiles,
                   counted, visited, outputs, system_command, printedOnly,
                   progress>>

\* a KeyboardInterrupt raised outside the try of lines 114-152 (during the
\* scan, the walk, the path derivation or a dry-run step) is not caught
InterruptOutsideTry ==
    /\ pc \in {"scan", "walk"}
    /\ \E status \in UncaughtInterruptStatus :
          Exit("uncaught_KeyboardInterrupt", status)
    /\ UNCHANGED <<source_dir, extension, dry_run, output_file_prefix,
                   output_subdir, fs, fs0, envChanges, total_files_to_process,
                   processed_files_counter, walkStack, curRoot, curFiles,
                   counted, visited, outputs, system_command, spawned,
                   printedOnly, lastOutcome, errorsReported, progress, emitted>>

\* lines 154-159: the bar at 100% and the summary
Finish ==
    /\ pc = "walk"
    /\ curFiles = {}
    /\ walkStack = <<>>
    /\ progress' = progress \cup
           {<<total_files_to_process, total_files_to_process>>}
    /\ emitted' = emitted \cup {"final_progress", "processing_complete"}
    /\ Exit("complete", 0)
    /\ UNCHANGED <<source_dir, extension, dry_run, output_file_prefix,
                   output_subdir, fs, fs0, envChanges, total_files_to_process,
                   processed_files_counter, walkStack, curRoot, curFiles,
                   counted, visited, outputs, system_command, spawned,
                   printedOnly, lastOutcome, errorsReported>>

\* the entries strictly below the source directory
UnderSource(e) ==
    LET top == Resolve(source_dir)
    IN  Len(e) > Len(top) /\ SubSeq(e, 1, Len(top)) = top

\* after the count, while the files are being processed, another process
\* creates a matching file in the source directory: the os.walk of line 83
\* lists each directory as it is when the walk reaches it
EnvCreateFile ==
    /\ pc = "walk"
    /\ envChanges < MaxEnvChanges
    /\ LET f == Append(Resolve(source_dir), Str_vt)
       IN  /\ f \notin fs.files \cup fs.dirs
           /\ fs' = [fs EXCEPT !.files = @ \cup {f}]
    /\ envChanges' = envChanges + 1
    /\ UNCHANGED <<source_dir, extension, dry_run, output_file_prefix,
                   output_subdir, fs0, pc, stop, exit_status,
                   total_files_to_process, processed_files_counter, walkStack,
                   curRoot, curFiles, counted, visited, outputs, system_command,
                   spawned, printedOnly, lastOutcome, errorsReported, progress,
                   emitted>>

\* after the count, while the files are being processed, another process
\* removes a matching file of the source tree
EnvRemoveFile ==
    /\ pc = "walk"
    /\ envChanges < MaxEnvChanges
    /\ \E f \in {e \in fs.files : UnderSource(e) /\ Matches(e[Len(e)], extension)} :
          fs' = [fs EXCEPT !.files = @ \ {f}]
    /\ envChanges' = envChanges + 1
    /\ UNCHANGED <<source_dir, extension, dry_run, output_file_prefix,
                   output_subdir, fs0, pc, stop, exit_status,
                   total_files_to_process, processed_files_counter, walkStack,
                   curRoot, curFiles, counted, visited, outputs, system_command,
                   spawned, printedOnly, lastOutcome, errorsReported, progress,
                   emitted>>

Next ==
    \/ Start
    \/ ScanDir
    \/ ScanDone
    \/ WalkDir
    \/ VisitFile
    \/ RunCommand
    \/ InterruptOutsideTry
    \/ Finish
    \/ EnvCreateFile
    \/ EnvRemoveFile

Spec == Init /\ [][Next]_vars

----------------------------------------------------------------------------
(* Properties                                                              *)

Range(s) == {s[i] : i \in 1..Len(s)}

NonFatalOutcomes == {"CommandNotFound", "NonZeroExit", "UnexpectedError"}

\* the number of matching files in the source tree when the run began
MatchCount0 ==
    Cardinality({e \in fs0.files :
        UnderSource(e) /\ Matches(e[Len(e)], NormaliseExtension(extension))})

\* the command most recently run or printed; every command is this one in
\* the state that follows its dispatch
LatestCommand ==
    LET cmds == IF dry_run THEN printedOnly ELSE spawned
    IN  IF cmds = <<>> THEN {} ELSE {cmds[Len(cmds)]}

\* the configured output root: the base directory and the sub-directory option
OutputRoot == join(output_base_dir, output_subdir)

\* the segments of a file of the source tree below the source root
RelSegs(original) ==
    LET p == Resolve(original)
    IN  SubSeq(p, Len(Resolve(source_dir)) + 1, Len(p))

\* dest lies under the output root at the directory segments `original` has
\* below the source root, its name being the prefix followed by the base name
Mirrors(original, dest) ==
    LET rel == RelSegs(original)
    IN  /\ rel # <<>>
        /\ Segments(dest) =
               Segments(OutputRoot) \o SubSeq(rel, 1, Len(rel) - 1)
               \o <<output_file_prefix \o rel[Len(rel)]>>

\* C1: a dispatch that ends as CommandNotFound, NonZeroExit or
\* UnexpectedError leaves the run in its loop, with the files still to be
\* visited untouched, and a run that reaches the summary has dispatched
\* every file it visited.
C1_FailedDispatchContinues ==
    /\ [][(/\ Len(spawned') = Len(spawned) + 1
           /\ lastOutcome' \in NonFatalOutcomes)
          => (/\ pc' = "walk"
              /\ stop' = "none"
              /\ walkStack' = walkStack
              /\ curFiles' = curFiles
              /\ curRoot' = curRoot)]_vars
    /\ []((stop = "complete" /\ ~dry_run)
          => Len(spawned) = processed_files_counter)

\* C1: a run that completed although an earlier dispatch had failed
C1_Witness ==
    /\ stop = "complete"
    /\ "processing_complete" \in emitted
    /\ errorsReported >= 1
    /\ lastOutcome = "Success"
    /\ Len(spawned) >= 2

\* C2: once a dispatch has ended as Interrupted the run has stopped with
\* neither the final progress line nor the summary printed, and nothing is
\* visited, dispatched or printed afterwards.
C2_InterruptStopsRun ==
    /\ [](lastOutcome = "Interrupted"
          => (/\ stop = "interrupted"
              /\ "final_progress" \notin emitted
              /\ "processing_complete" \notin emitted))
    /\ [][lastOutcome = "Interrupted"
          => (/\ spawned' = spawned
              /\ visited' = visited
              /\ printedOnly' = printedOnly
              /\ progress' = progress
              /\ emitted' = emitted)]_vars

\* C2: the interrupt arrived during the dispatch of file k of n > k
C2_Witness ==
    /\ stop = "interrupted"
    /\ lastOutcome = "Interrupted"
    /\ ~dry_run
    /\ Len(spawned) >= 1
    /\ Len(spawned) < total_files_to_process
    /\ envChanges = 0

\* C3 as claimed: with nothing else changing the source tree, a completed
\* dry run has run no command, and a completed run, dry or not, ends with
\* the total and the processed count both equal to the number of matching
\* files of the tree it was given.
C3_Claim ==
    (stop = "complete" /\ envChanges = 0)
    => (/\ dry_run => spawned = <<>>
        /\ total_files_to_process = MatchCount0
        /\ processed_files_counter = MatchCount0)

\* the dry-run half of C3: what the counts of a dry run are
DryRunCounts ==
    (stop = "complete" /\ envChanges = 0 /\ dry_run)
    => (/\ spawned = <<>>
        /\ total_files_to_process = MatchCount0
        /\ processed_files_counter = MatchCount0)

\* C4 as claimed: in a run that reached the summary the files visited are
\* exactly the files counted by the first scan, each once, each with one
\* destination path and one dispatch attempt (a printed command in a dry run).
C4_Claim ==
    stop = "complete"
    => (/\ {Resolve(v) : v \in Range(visited)} = counted
        /\ Len(visited) = Cardinality(counted)
        /\ Len(outputs) = Len(visited)
        /\ Len(IF dry_run THEN printedOnly ELSE spawned) = Len(visited))

\* C5 as claimed: the processed counter never exceeds the total.
C5_Claim == processed_files_counter <= total_files_to_process

\* C6 as claimed: a run that found no matching file exits with status 0,
\* has dispatched nothing and has created no directory.
C6_Claim ==
    stop = "no_match"
    => (/\ exit_status = 0
        /\ spawned = <<>>
        /\ fs.dirs = fs0.dirs)

\* C7 as claimed: exit status 0 on completion, on zero matches and on an
\* interrupt wherever it arrives; exit status 1 on an invalid source.
C7_Claim ==
    /\ stop \in {"complete", "no_match", "interrupted",
                 "uncaught_KeyboardInterrupt"} => exit_status = 0
    /\ stop = "bad_source" => exit_status = 1

\* C8 as claimed: a failure to create the destination directory of a file
\* does not end the run.
C8_Claim == stop # "uncaught_OSError_dest"

\* C9 as claimed: for every prefix and sub-directory option, the last
\* argument of each command, when it is dispatched, mirrors the position of
\* the file (its last but one argument) under the output root, its name
\* being prefix + base name.
C9_Claim ==
    \A cmd \in LatestCommand : Mirrors(cmd[Len(cmd) - 1], cmd[Len(cmd)])

\* C9 amended: the same, for every prefix that holds no path separator.
C9_Amended ==
    (sep \notin Range(output_file_prefix))
    => \A cmd \in LatestCommand : Mirrors(cmd[Len(cmd) - 1], cmd[Len(cmd)])

\* C9: a command was run for a file one directory below the source root,
\* with a prefix and a sub-directory option set
C9_Witness ==
    /\ output_file_prefix = <<"p", "_">>
    /\ output_subdir = Str_o
    /\ \E cmd \in Range(spawned) : Len(RelSegs(cmd[Len(cmd) - 1])) = 2

\* C10 as claimed: every call of print_progress has total > 0 and
\* 0 <= iteration <= total.
C10_Claim ==
    \A c \in progress : c[2] > 0 /\ 0 <= c[1] /\ c[1] <= c[2]

====
